---- MODULE Spec2Model ----
(***************************************************************************)
(* Quiz web backend: the dedupe / fingerprint subsystem that guards quiz   *)
(* and result persistence (backend/services.py, backend/routes.py,         *)
(* backend/clean.py).                                                      *)
(*                                                                         *)
(* Representation of Python values.                                        *)
(*  - A dict is a record holding its values plus "keys", the sequence of   *)
(*    its keys in insertion order (json.dumps without sort_keys and the    *)
(*    JSON column keep that order; two dicts that differ only in "keys"    *)
(*    order are equal in Python).  A key that is not in "keys" holds the   *)
(*    filler value of its field.                                           *)
(*  - A string on which the code does character work (strip, lower) is a   *)
(*    sequence of one-character strings; other strings are TLA+ strings.   *)
(*  - A JSON scalar inside a user dict is [type, text]: type "str", "num"  *)
(*    or "absent"; text is the characters of the string, or of str(n).     *)
(*  - sha256 is modelled as injective: a digest is the canonical encoding. *)
(*  - Time is in seconds; the clock only moves forward.                    *)
(*  - uploads is the upload directory: the files in it, each named by the  *)
(*    counter of its name (0 for the name as sent, n for the suffix _n).   *)
(***************************************************************************)
EXTENDS Integers, Sequences, FiniteSets, TLC

VARIABLES quizzes, results, now, work, last, uploads

vars == <<quizzes, results, now, work, last, uploads>>

(* ------------------------------ bounds --------------------------------- *)

\* executor threads that can run a save at the same time (the pool has 4)
NumWorkers == 2

\* the clock advances TickSeconds at a time: at most MaxTicks times where the
\* dedupe window is studied, at most MaxShortTicks times elsewhere
TickSeconds == 5

MaxTicks == 4

MaxShortTicks == 1

\* a save that will insert is started only while its table holds fewer rows
MaxQuizzes == 2

MaxResults == 2

\* no result save is started once the next Result id would exceed this
MaxResultId == 4

\* an upload is started only while the upload directory holds fewer files
MaxUploads == 2

(* --------------------------- program constants ------------------------- *)

\* save_result_sync(..., dedupe_window_seconds: int = 15)
dedupe_window_seconds == 15

\* Optional[int] quiz reference: None, a value apart from every integer a
\* request can carry (ids of stored rows start at 1, a payload may carry 0)
None == -1

\* Optional[str] title: None
NoTitle == "<None>"

\* Column(String(255), default="Uploaded Quiz")
DefaultTitle == "Uploaded Quiz"

Workers == 1..NumWorkers

Range(s) == {s[i] : i \in DOMAIN s}

Max(S) == CHOOSE x \in S : \A y \in S : y <= x

(* ------------------------- canonical encoder --------------------------- *)

\* every dict key the program uses, in the order sort_keys puts them
\* (code point order of the key strings)
SortedKeyNames ==
    << "correct", "correctText", "correct_answer", "email", "explanation",
       "isCorrect", "name", "options", "question", "questionIndex",
       "questionText", "raw", "selected", "selectedText" >>

\* sorted(d.keys()): the keys of d in sort_keys order
SortKeys(ks) ==
    LET present == Range(ks)
    IN  SelectSeq(SortedKeyNames, LAMBDA k : k \in present)

\* json.dumps(d, sort_keys=True, ...) of one dict: the same values, keys sorted
CanonDict(d) == [d EXCEPT !.keys = SortKeys(d.keys)]

\* json.dumps(l, sort_keys=True, ensure_ascii=False, separators=(',', ':'))
\* of a list of dicts: element order is kept, each dict's keys are sorted
json_dumps_sorted(l) == [i \in DOMAIN l |-> CanonDict(l[i])]

\* Python ==  on two lists of dicts (dict equality ignores insertion order)
PyEqList(a, b) == json_dumps_sorted(a) = json_dumps_sorted(b)

PyEqDict(a, b) == CanonDict(a) = CanonDict(b)

(* ------------------------------ questions ------------------------------ *)

QuestionKeys == << "question", "options", "correct_answer" >>

Question(ks, text, opts, correct) ==
    [keys |-> ks, question |-> text, options |-> opts, correct_answer |-> correct]

Q1 == Question(QuestionKeys, "2+2?", << "1", "2", "3", "4" >>, "4")

\* Q1 with its keys inserted in another order: equal to Q1 in Python
Q1perm ==
    Question(<< "correct_answer", "question", "options" >>, "2+2?",
             << "1", "2", "3", "4" >>, "4")

Q2 == Question(QuestionKeys, "2+2?", << "1", "2", "3", "4" >>, "3")

QA == << Q1 >>

QAperm == << Q1perm >>

QB == << Q2 >>

QC == << Q1, Q2 >>

\* _questions_fingerprint: sha256 of the canonical encoding
fingerprint_mutant_unsorted(questions) == questions

_questions_fingerprint(questions) == json_dumps_sorted(questions)

(* --------------------------- character strings ------------------------- *)

UpperChars == << "A", "B", "N", "Q", "S" >>

LowerChars == << "a", "b", "n", "q", "s" >>

\* str.lower() on one character
LowerChar(c) ==
    IF \E i \in DOMAIN UpperChars : UpperChars[i] = c
    THEN LowerChars[CHOOSE i \in DOMAIN UpperChars : UpperChars[i] = c]
    ELSE c

Lower(cs) == [i \in DOMAIN cs |-> LowerChar(cs[i])]

WhitespaceChars == {" "}

RECURSIVE Strip(_)
\* str.strip(): leading and trailing whitespace removed
Strip(cs) ==
    IF cs = << >> THEN cs
    ELSE IF Head(cs) \in WhitespaceChars THEN Strip(Tail(cs))
    ELSE IF cs[Len(cs)] \in WhitespaceChars THEN Strip(SubSeq(cs, 1, Len(cs) - 1))
    ELSE cs

DigitChars == {"0", "1", "2", "3", "4", "5", "6", "7", "8", "9"}

(* ------------------------------- user values --------------------------- *)

Absent == [type |-> "absent", text |-> << >>]

\* None as a value inside a JSON document
JNull == [type |-> "null", text |-> << >>]

JStr(cs) == [type |-> "str", text |-> cs]

\* a JSON number; text is str(n)
JNum(cs) == [type |-> "num", text |-> cs]

\* the "user" value of a submission: kind "null" (None), "dict", "str" or "num"
UserNull ==
    [kind |-> "null", keys |-> << >>, email |-> Absent, name |-> Absent,
     raw |-> Absent, text |-> << >>]

UserDict(ks, e, n, r) ==
    [kind |-> "dict", keys |-> ks, email |-> e, name |-> n, raw |-> r, text |-> << >>]

UserStr(cs) ==
    [kind |-> "str", keys |-> << >>, email |-> Absent, name |-> Absent,
     raw |-> Absent, text |-> cs]

UserNum(cs) ==
    [kind |-> "num", keys |-> << >>, email |-> Absent, name |-> Absent,
     raw |-> Absent, text |-> cs]

\* bool(x) of a JSON scalar (None, "" and 0 are falsy)
TruthyScalar(x) ==
    CASE x.type \in {"absent", "null"} -> FALSE
      [] x.type = "str" -> x.text # << >>
      [] OTHER -> x.text # << "0" >>

\* bool(u) of a user value (None, {}, "" and 0 are falsy)
TruthyUser(u) ==
    CASE u.kind = "null" -> FALSE
      [] u.kind = "dict" -> u.keys # << >>
      [] u.kind = "str" -> u.text # << >>
      [] OTHER -> u.text # << "0" >>

\* u.get(k): the value at k, None when the dict has no such key
DictGet(u, k) ==
    IF k \in Range(u.keys)
    THEN (CASE k = "email" -> u.email [] k = "name" -> u.name [] OTHER -> u.raw)
    ELSE Absent

\* the JSON texts of the model that are no plain numbers, each with the value
\* json.loads gives for it
EncodedNull == << "n", "u", "l", "l" >>

\* "A" between double quotes
EncodedString == << "\"", "A", "\"" >>

\* {"email":"A@x"}
EncodedEmailDict ==
    << "{", "\"", "e", "m", "a", "i", "l", "\"", ":", "\"", "A", "@", "x", "\"", "}" >>

\* {"email":5}
EncodedNumberEmailDict ==
    << "{", "\"", "e", "m", "a", "i", "l", "\"", ":", "5", "}" >>

JsonTexts ==
    {<< EncodedNull, UserNull >>,
     << EncodedString, UserStr(<< "A" >>) >>,
     << EncodedEmailDict, UserDict(<< "email" >>, JStr(<< "A", "@", "x" >>), Absent, Absent) >>,
     << EncodedNumberEmailDict, UserDict(<< "email" >>, JNum(<< "5" >>), Absent, Absent) >>}

\* json.loads(s) of a user string: the strings of the model are the JSON texts
\* above, the decimal text of a natural number (no leading zero), which parses
\* to that number, or no JSON at all
json_loads(cs) ==
    IF \E p \in JsonTexts : p[1] = cs
    THEN [ok |-> TRUE, value |-> (CHOOSE p \in JsonTexts : p[1] = cs)[2]]
    ELSE IF /\ cs # << >>
            /\ \A i \in DOMAIN cs : cs[i] \in DigitChars
            /\ (Len(cs) = 1 \/ cs[1] # "0")
    THEN [ok |-> TRUE, value |-> UserNum(cs)]
    ELSE [ok |-> FALSE, value |-> UserNull]

\* str(u) of a value that is no dict
UserText(u) == IF u.kind = "null" THEN << "N", "o", "n", "e" >> ELSE u.text

Returned(cs) == [raised |-> FALSE, key |-> cs]

\* an exception leaves the function (AttributeError: no .strip())
Raised == [raised |-> TRUE, key |-> << >>]

\* u.get("email") or u.get("name") or u.get("raw") or ""
FirstIdentity(u) ==
    IF TruthyScalar(DictGet(u, "email")) THEN DictGet(u, "email")
    ELSE IF TruthyScalar(DictGet(u, "name")) THEN DictGet(u, "name")
    ELSE IF TruthyScalar(DictGet(u, "raw")) THEN DictGet(u, "raw")
    ELSE JStr(<< >>)

\* the isinstance(u, dict) branch and the final str(u) branch of make_user_key
UserKeyOfValue(u) ==
    IF u.kind = "dict"
    THEN (IF FirstIdentity(u).type = "str"
          THEN Returned(Lower(Strip(FirstIdentity(u).text)))
          ELSE Raised)
    ELSE Returned(Lower(Strip(UserText(u))))

make_user_key(u) ==
    IF ~TruthyUser(u) THEN Returned(<< >>)
    ELSE IF u.kind = "str"
    THEN (IF json_loads(u.text).ok
          THEN UserKeyOfValue(json_loads(u.text).value)
          ELSE Returned(Lower(Strip(u.text))))
    ELSE UserKeyOfValue(u)

\* save_result_sync: u = user if (user is None or isinstance(user, dict))
\*                       else {"raw": str(user)}
NormalizeUser(user) ==
    IF user.kind \in {"null", "dict"} THEN user
    ELSE UserDict(<< "raw" >>, Absent, Absent, JStr(user.text))

\* json.dumps(u, sort_keys=True, ...) if u is not None else "null"
user_str(u) == IF u.kind = "null" THEN UserNull ELSE CanonDict(u)

EmailA == << "a", "@", "x" >>

UserAlice == UserDict(<< "email", "name" >>, JStr(EmailA), JStr(<< "A" >>), Absent)

\* UserAlice with its keys inserted in the other order: equal in Python
UserAlicePerm == UserDict(<< "name", "email" >>, JStr(EmailA), JStr(<< "A" >>), Absent)

\* same email as UserAlice, another name
UserAliceB == UserDict(<< "email", "name" >>, JStr(EmailA), JStr(<< "B" >>), Absent)

UserNameOnly == UserDict(<< "name" >>, Absent, JStr(<< " ", "A" >>), Absent)

\* a dict whose email is a number
UserBadEmail == UserDict(<< "email" >>, JNum(<< "5" >>), Absent, Absent)

UserRawString == UserStr(<< "A" >>)

(* --------------------------- answers (detailed) ------------------------ *)

DetailKeys ==
    << "questionIndex", "questionText", "selected", "selectedText", "correct",
       "correctText", "isCorrect", "explanation" >>

\* one entry of submit_answers' "detailed" list
Detail(ks, idx, q, userAns, is_correct) ==
    [keys |-> ks, questionIndex |-> idx, questionText |-> q.question,
     selected |-> userAns, selectedText |-> userAns, correct |-> q.correct_answer,
     correctText |-> q.correct_answer, isCorrect |-> is_correct, explanation |-> ""]

DetailKeysPerm ==
    << "isCorrect", "questionIndex", "questionText", "selected", "selectedText",
       "correct", "correctText", "explanation" >>

\* quiz QC answered "4", "4": first right, second wrong
AnsRW == << Detail(DetailKeys, 0, Q1, "4", TRUE), Detail(DetailKeys, 1, Q2, "4", FALSE) >>

\* the same list with the keys of each entry in another insertion order
AnsRWperm ==
    << Detail(DetailKeysPerm, 0, Q1, "4", TRUE), Detail(DetailKeysPerm, 1, Q2, "4", FALSE) >>

\* quiz QC answered "3", "3": first wrong, second right
AnsWR == << Detail(DetailKeys, 0, Q1, "3", FALSE), Detail(DetailKeys, 1, Q2, "3", TRUE) >>

\* quiz QC answered "4", "3": both right
AnsRR == << Detail(DetailKeys, 0, Q1, "4", TRUE), Detail(DetailKeys, 1, Q2, "3", TRUE) >>

\* the arguments of one save_result_sync call
Submission(quiz_id, score, total, answers, user) ==
    [quiz_id |-> quiz_id, score |-> score, total |-> total, answers |-> answers,
     user |-> user]

SubBase == Submission(1, 1, 2, AnsRW, UserAlice)

\* equal to SubBase in Python: only the insertion order of dict keys differs
SubPerm == Submission(1, 1, 2, AnsRWperm, UserAlicePerm)

SubOtherAnswers == Submission(1, 1, 2, AnsWR, UserAlice)

SubOtherUser == Submission(1, 1, 2, AnsRW, UserAliceB)

SubOtherScore == Submission(1, 2, 2, AnsRR, UserAlice)

SubNoQuiz == Submission(None, 1, 2, AnsRW, UserAlice)

SubBadUser == Submission(1, 1, 2, AnsRW, UserBadEmail)

SubRawUser == Submission(1, 1, 2, AnsRW, UserRawString)

SubNameOnly == Submission(1, 1, 2, AnsRW, UserNameOnly)

\* the same attempt in Python's eyes: every argument equal
SameSubmission(a, b) ==
    /\ a.quiz_id = b.quiz_id
    /\ a.score = b.score
    /\ a.total = b.total
    /\ PyEqList(a.answers, b.answers)
    /\ a.user.kind = b.user.kind
    /\ a.user.text = b.user.text
    /\ PyEqDict(a.user, b.user)

(* -------------------------------- the store ---------------------------- *)

\* INTEGER PRIMARY KEY of a new row: one more than the greatest id stored
NextId(rows) == IF rows = {} THEN 1 ELSE Max({r.id : r \in rows}) + 1

\* Quiz(title=title, ...): a None title takes the column default
StoredTitle(title) == IF title = NoTitle THEN DefaultTitle ELSE title

QuizRow(id, title, questions, fp, t) ==
    [id |-> id, title |-> StoredTitle(title), questions |-> questions,
     fingerprint |-> fp, created_at |-> t]

ResultRow(id, sub, u, t) ==
    [id |-> id, quiz_id |-> sub.quiz_id, score |-> sub.score, total |-> sub.total,
     answers |-> sub.answers, user |-> u, created_at |-> t]

Idle == [op |-> "idle"]

AllIdle == \A w \in Workers : work[w].op = "idle"

(* ------------------------- save_quiz_to_db_sync ------------------------ *)

\* bool(title)
TruthyTitle(title) == title \notin {NoTitle, ""}

\* the lookup compares the stored question list, not the stored digest
QuizMatches_mutant_raw(fp) == {q \in quizzes : q.questions = fp}

\* session.query(Quiz).filter(Quiz.fingerprint == fp)
QuizMatches(fp) == {q \in quizzes : q.fingerprint = fp}

NeedsBackfill_mutant_always(title, existing_title) ==
    TruthyTitle(title) /\ title # existing_title

\* title and (existing.title in (None, "", "Uploaded Quiz")) and title != existing.title
NeedsBackfill(title, existing_title) ==
    /\ TruthyTitle(title)
    /\ existing_title \in {NoTitle, "", DefaultTitle}
    /\ title # existing_title

QuizCall(title, questions, fp, existing, existing_title) ==
    [op |-> "save_quiz", title |-> title, questions |-> questions, fp |-> fp,
     existing |-> existing, existing_title |-> existing_title]

\* lines 232-238: fingerprint, then .first() of the rows with that fingerprint
\* (no ORDER BY: any of them); the calls the lookup can leave pending
QuizLookups(title, questions) ==
    LET fp == _questions_fingerprint(questions)
    IN  IF QuizMatches(fp) = {}
        THEN {QuizCall(title, questions, fp, None, NoTitle)}
        ELSE {QuizCall(title, questions, fp, e.id, e.title) : e \in QuizMatches(fp)}

\* the UPDATE rewrites the creation time as well
WithTitle_mutant_touch(rows, id, title) ==
    {IF q.id = id THEN [q EXCEPT !.title = title, !.created_at = now + 1] ELSE q :
       q \in rows}

\* UPDATE quizzes SET title = ... WHERE id = ...
WithTitle(rows, id, title) ==
    {IF q.id = id THEN [q EXCEPT !.title = title] ELSE q : q \in rows}

\* the quiz table after lines 238-250 ran for the pending call c
QuizStoreAfter(c) ==
    IF c.existing # None
    THEN (IF NeedsBackfill(c.title, c.existing_title)
          THEN WithTitle(quizzes, c.existing, c.title)
          ELSE quizzes)
    ELSE quizzes \cup {QuizRow(NextId(quizzes), c.title, c.questions, c.fp, now)}

\* what the call c hands back: the id returned, or the exception of a commit
\* whose UPDATE matched no row (the row found was deleted meanwhile)
QuizReturn(c) ==
    [op |-> "save_quiz", title |-> c.title, questions |-> c.questions,
     ret |-> IF c.existing # None THEN c.existing ELSE NextId(quizzes),
     inserted |-> c.existing = None,
     updated |-> /\ c.existing # None
                 /\ NeedsBackfill(c.title, c.existing_title)
                 /\ \E q \in quizzes : q.id = c.existing,
     raised |-> /\ c.existing # None
                /\ NeedsBackfill(c.title, c.existing_title)
                /\ ~ \E q \in quizzes : q.id = c.existing]

\* a call that will insert is started only below the row bound
QuizRoom(c) == c.existing = None => Cardinality(quizzes) < MaxQuizzes

\* save_quiz_to_db_sync(title, questions), the whole call
save_quiz_to_db_sync(title, questions) ==
    /\ \E c \in QuizLookups(title, questions) :
         /\ QuizRoom(c)
         /\ quizzes' = QuizStoreAfter(c)
         /\ last' = QuizReturn(c)
    /\ UNCHANGED << results, now, work, uploads >>

\* the first half of the call on executor thread w: the read
save_quiz_lookup(w, title, questions) ==
    /\ work[w].op = "idle"
    /\ \E c \in QuizLookups(title, questions) :
         /\ QuizRoom(c)
         /\ work' = [work EXCEPT ![w] = c]
    /\ UNCHANGED << quizzes, results, now, last, uploads >>

\* the second half of the call on executor thread w: the write and the return
save_quiz_finish(w) ==
    /\ work[w].op = "save_quiz"
    /\ quizzes' = QuizStoreAfter(work[w])
    /\ last' = QuizReturn(work[w])
    /\ work' = [work EXCEPT ![w] = Idle]
    /\ UNCHANGED << results, now, uploads >>

(* ---------------------------- save_result_sync ------------------------- *)

InWindow_mutant_strict(created_at, t) == created_at > t - dedupe_window_seconds

\* Result.created_at >= cutoff, cutoff = utcnow() - timedelta(seconds=window)
InWindow(created_at, t) == created_at >= t - dedupe_window_seconds

\* lines 297-308: the rows the query returns
Candidates(sub, t) ==
    {r \in results :
       /\ r.score = sub.score
       /\ r.total = sub.total
       /\ InWindow(r.created_at, t)
       /\ r.quiz_id = sub.quiz_id}

DeepMatch_mutant_answers_only(r, sub) ==
    json_dumps_sorted(r.answers) = json_dumps_sorted(sub.answers)

\* lines 311-342: the deep comparison of one candidate (answers, then user)
DeepMatch(r, sub) ==
    /\ json_dumps_sorted(r.answers) = json_dumps_sorted(sub.answers)
    /\ user_str(r.user) = user_str(NormalizeUser(sub.user))

\* the candidates that pass the deep comparison
Matching(sub, t) == {r \in Candidates(sub, t) : DeepMatch(r, sub)}

FirstMatches_mutant_oldest(sub, t) ==
    LET m == Matching(sub, t)
    IN  {r \in m : \A o \in m : r.created_at <= o.created_at}

\* order_by(created_at.desc()), first match wins: a matching row that no other
\* matching row precedes (rows with equal created_at come in any order)
FirstMatches(sub, t) ==
    LET m == Matching(sub, t)
    IN  {r \in m : \A o \in m : o.created_at <= r.created_at}

ResultCall(sub, at, existing) ==
    [op |-> "save_result", sub |-> sub, at |-> at, existing |-> existing]

\* lines 282-342: normalise, query the candidates, compare them in order;
\* the calls the lookup can leave pending
ResultLookups(sub) ==
    LET first == FirstMatches(sub, now)
    IN  IF first = {}
        THEN {ResultCall(sub, now, None)}
        ELSE {ResultCall(sub, now, cand.id) : cand \in first}

\* a reuse stamps the matched row with the time of the call
ResultStoreAfter_mutant_refresh(c) ==
    IF c.existing # None
    THEN {IF r.id = c.existing THEN [r EXCEPT !.created_at = now] ELSE r : r \in results}
    ELSE results \cup {ResultRow(NextId(results), c.sub, NormalizeUser(c.sub.user), now)}

\* the write repeats the lookup and inserts only when it still finds nothing
ResultStoreAfter_mutant_recheck(c) ==
    IF c.existing # None \/ Matching(c.sub, now) # {}
    THEN results
    ELSE results \cup {ResultRow(NextId(results), c.sub, NormalizeUser(c.sub.user), now)}

\* the result table after lines 344-360 ran for the pending call c
ResultStoreAfter(c) ==
    IF c.existing # None
    THEN results
    ELSE results \cup {ResultRow(NextId(results), c.sub, NormalizeUser(c.sub.user), now)}

\* the tag is set whenever any stored row has the call's quiz, score and total
ResultReturn_mutant_tag_any_duplicate(c) ==
    [op |-> "save_result", sub |-> c.sub, at |-> c.at,
     ret |-> IF c.existing # None THEN c.existing ELSE NextId(results),
     note |-> \E r \in results :
                /\ r.quiz_id = c.sub.quiz_id
                /\ r.score = c.sub.score
                /\ r.total = c.sub.total]

\* the dict save_result_sync returns: the row's id, and "note" when deduped
ResultReturn(c) ==
    [op |-> "save_result", sub |-> c.sub, at |-> c.at,
     ret |-> IF c.existing # None THEN c.existing ELSE NextId(results),
     note |-> c.existing # None]

ResultRoom(c) == c.existing = None => Cardinality(results) < MaxResults

\* save_result_sync(quiz_id, score, total, answers, user), the whole call
save_result_sync(sub) ==
    /\ \E c \in ResultLookups(sub) :
         /\ ResultRoom(c)
         /\ results' = ResultStoreAfter(c)
         /\ last' = ResultReturn(c)
    /\ UNCHANGED << quizzes, now, work, uploads >>

\* the first half of the call on executor thread w: the read
save_result_lookup(w, sub) ==
    /\ work[w].op = "idle"
    /\ \E c \in ResultLookups(sub) :
         /\ ResultRoom(c)
         /\ work' = [work EXCEPT ![w] = c]
    /\ UNCHANGED << quizzes, results, now, last, uploads >>

\* the second half of the call on executor thread w: the write and the return
save_result_finish(w) ==
    /\ work[w].op = "save_result"
    /\ results' = ResultStoreAfter(work[w])
    /\ last' = ResultReturn(work[w])
    /\ work' = [work EXCEPT ![w] = Idle]
    /\ UNCHANGED << quizzes, now, uploads >>

(* ------------------------- delete_quiz, delete_result ------------------ *)

Deleted(op, id, found) == [op |-> op, id |-> id, found |-> found]

\* the results of the quiz are left in place
delete_quiz_mutant_no_cascade(quiz_id) ==
    /\ IF \E q \in quizzes : q.id = quiz_id
       THEN /\ results' = results
            /\ quizzes' = {q \in quizzes : q.id # quiz_id}
            /\ last' = Deleted("delete_quiz", quiz_id, TRUE)
       ELSE /\ UNCHANGED << quizzes, results >>
            /\ last' = Deleted("delete_quiz", quiz_id, FALSE)
    /\ UNCHANGED << now, work, uploads >>

\* routes.py delete_quiz: 404 when absent, else the quiz and its results go
delete_quiz(quiz_id) ==
    /\ IF \E q \in quizzes : q.id = quiz_id
       THEN /\ results' = {r \in results : r.quiz_id # quiz_id}
            /\ quizzes' = {q \in quizzes : q.id # quiz_id}
            /\ last' = Deleted("delete_quiz", quiz_id, TRUE)
       ELSE /\ UNCHANGED << quizzes, results >>
            /\ last' = Deleted("delete_quiz", quiz_id, FALSE)
    /\ UNCHANGED << now, work, uploads >>

\* routes.py delete_result: 404 when absent, else that one row goes
delete_result(result_id) ==
    /\ IF \E r \in results : r.id = result_id
       THEN /\ results' = {r \in results : r.id # result_id}
            /\ last' = Deleted("delete_result", result_id, TRUE)
       ELSE /\ results' = results
            /\ last' = Deleted("delete_result", result_id, FALSE)
    /\ UNCHANGED << quizzes, now, work, uploads >>

(* ------------------------------- cleanup ------------------------------- *)

\* ORDER BY created_at ASC, id ASC
Before(a, b) ==
    \/ a.created_at < b.created_at
    \/ a.created_at = b.created_at /\ a.id < b.id

RECURSIVE SortAsc(_)
SortAsc(rows) ==
    IF rows = {} THEN << >>
    ELSE LET first == CHOOSE r \in rows : \A o \in rows : o = r \/ Before(r, o)
         IN  << first >> \o SortAsc(rows \ {first})

\* the rows come oldest first
SortDesc_mutant_ascending(rows) == SortAsc(rows)

\* ORDER BY created_at DESC, id DESC
SortDesc(rows) ==
    LET asc == SortAsc(rows)
    IN  [i \in DOMAIN asc |-> asc[Len(asc) + 1 - i]]

\* the key holds the answers and the whole user payload as well
DedupeKey_mutant_whole_attempt(r, uname) ==
    << r.quiz_id, uname, r.score, r.total, r.created_at,
       json_dumps_sorted(r.answers), user_str(r.user) >>

\* the key leaves the creation time out
DedupeKey_mutant_no_timestamp(r, uname) == << r.quiz_id, uname, r.score, r.total >>

\* f"{r.quiz_id}|{uname}|{r.score}|{r.total}|{created_iso}"
DedupeKey(r, uname) == << r.quiz_id, uname, r.score, r.total, r.created_at >>

SweepState(seen, to_delete_ids, raised) ==
    [seen |-> seen, to_delete_ids |-> to_delete_ids, raised |-> raised]

RECURSIVE SweepLoop(_, _, _)
\* clean.py lines 25-32: for r in rows, from row i on
SweepLoop(rows, i, st) ==
    IF i > Len(rows) THEN st
    ELSE IF make_user_key(rows[i].user).raised THEN SweepState(st.seen, << >>, TRUE)
    ELSE LET key == DedupeKey(rows[i], make_user_key(rows[i].user).key)
         IN  IF key \in st.seen
             THEN SweepLoop(rows, i + 1,
                            SweepState(st.seen, Append(st.to_delete_ids, rows[i].id), FALSE))
             ELSE SweepLoop(rows, i + 1,
                            SweepState(st.seen \cup {key}, st.to_delete_ids, FALSE))

Sweep(rows) == SweepLoop(SortAsc(rows), 1, SweepState({}, << >>, FALSE))

\* clean.py cleanup(): scan oldest first, then delete every row marked
cleanup ==
    /\ LET st == Sweep(results)
       IN  /\ results' = {r \in results : r.id \notin Range(st.to_delete_ids)}
           /\ last' = [op |-> "cleanup", deleted |-> Range(st.to_delete_ids),
                       raised |-> st.raised]
    /\ UNCHANGED << quizzes, now, work, uploads >>

(* ----------------------------- list_results ---------------------------- *)

\* routes.py lines 283-292: the identity string list_results derives
ListUserKey(u) ==
    LET user_obj ==
          IF u.kind = "str"
          THEN (IF json_loads(u.text).ok THEN json_loads(u.text).value
                ELSE UserDict(<< "raw" >>, Absent, Absent, JStr(u.text)))
          ELSE u
    IN  IF user_obj.kind = "dict"
        THEN (IF FirstIdentity(user_obj).type = "str"
              THEN Returned(Lower(Strip(FirstIdentity(user_obj).text)))
              ELSE Raised)
        ELSE Returned(<< >>)

\* .limit(limit).offset(offset) of an ordered result
Page(rows, limit, offset) ==
    SubSeq(rows, offset + 1, IF offset + limit < Len(rows) THEN offset + limit ELSE Len(rows))

ListState(seen_keys, out, raised) ==
    [seen_keys |-> seen_keys, out |-> out, raised |-> raised]

RECURSIVE ListLoop(_, _, _)
\* routes.py lines 281-311: for r in rows, from row i on; out holds the ids shown
ListLoop(rows, i, st) ==
    IF i > Len(rows) THEN st
    ELSE IF ListUserKey(rows[i].user).raised THEN ListState(st.seen_keys, << >>, TRUE)
    ELSE LET dedupe_key == DedupeKey(rows[i], ListUserKey(rows[i].user).key)
         IN  IF dedupe_key \in st.seen_keys
             THEN ListLoop(rows, i + 1, st)
             ELSE ListLoop(rows, i + 1,
                           ListState(st.seen_keys \cup {dedupe_key},
                                     Append(st.out, rows[i].id), FALSE))

\* routes.py list_results(quiz_id, limit, offset): reads only
list_results(quiz_id, limit, offset) ==
    /\ LET filtered ==
             IF quiz_id # None THEN {r \in results : r.quiz_id = quiz_id} ELSE results
           st == ListLoop(Page(SortDesc(filtered), limit, offset), 1,
                          ListState({}, << >>, FALSE))
       IN  last' = [op |-> "list_results", quiz_id |-> quiz_id, limit |-> limit,
                    offset |-> offset, out |-> st.out, raised |-> st.raised]
    /\ UNCHANGED << quizzes, results, now, work, uploads >>

(* -------------------------------- the clock ---------------------------- *)

\* datetime.utcnow() moves on
Advance(limit) ==
    /\ now < limit * TickSeconds
    /\ now' = now + TickSeconds
    /\ UNCHANGED << quizzes, results, work, last, uploads >>

Tick == Advance(MaxTicks)

ShortTick == Advance(MaxShortTicks)

(* ----------------------------- specifications -------------------------- *)

Init ==
    /\ quizzes = {}
    /\ results = {}
    /\ now = 0
    /\ work = [w \in Workers |-> Idle]
    /\ last = [op |-> "init"]
    /\ uploads = {}

Titles == {NoTitle, "", DefaultTitle, "Math", "Physics"}

QuestionLists == {QA, QAperm, QB}

\* the ids a delete request may name
QuizIds == 1..MaxQuizzes

ResultIds == 1..MaxResults

\* Quiz saves and deletes, each request run to completion before the next.
NextQuiz ==
    \/ \E title \in Titles, q \in QuestionLists : save_quiz_to_db_sync(title, q)
    \/ \E id \in QuizIds : delete_quiz(id)

SpecQuiz == Init /\ [][NextQuiz]_vars

\* attempts that differ from SubBase in nothing (SubPerm), in the user payload
\* only, or in the answers only
DeepSubmissions == {SubBase, SubPerm, SubOtherUser, SubOtherAnswers}

\* the store once quiz QC was uploaded as "Math"
InitResult ==
    /\ quizzes = {QuizRow(1, "Math", QC, _questions_fingerprint(QC), 0)}
    /\ results = {}
    /\ now = 0
    /\ work = [w \in Workers |-> Idle]
    /\ last = [op |-> "init"]
    /\ uploads = {}

\* Result saves and deletes, each request run to completion before the next.
NextResult ==
    \/ \E sub \in DeepSubmissions : save_result_sync(sub)
    \/ \E id \in ResultIds : delete_result(id)
    \/ delete_quiz(1)
    \/ Tick

SpecResult == InitResult /\ [][NextResult]_vars

StoreTitles == {NoTitle, "Math"}

\* attempts that differ in the quiz reference, or in a user whose email is
\* not a string
StoreSubmissions == {SubBase, SubNoQuiz, SubBadUser}

\* Every request of the service and the sweep, each run to completion before
\* the next.
Next ==
    \/ \E title \in StoreTitles : save_quiz_to_db_sync(title, QC)
    \/ \E sub \in StoreSubmissions : save_result_sync(sub)
    \/ \E id \in QuizIds : delete_quiz(id)
    \/ \E id \in ResultIds : delete_result(id)
    \/ cleanup
    \/ \E id \in {None, 1} : list_results(id, 100, 0)
    \/ ShortTick

Spec == Init /\ [][Next]_vars

\* the identical calls that race: one question list, one attempt
RaceQuestionLists == {QA}

RaceSubmissions == {SubBase}

\* Saves on the executor threads, interleaved at their read and write steps,
\* all within one instant of the clock.
NextRace ==
    \/ \E w \in Workers, questions \in RaceQuestionLists :
         save_quiz_lookup(w, "Math", questions)
    \/ \E w \in Workers : save_quiz_finish(w)
    \/ \E w \in Workers, sub \in RaceSubmissions : save_result_lookup(w, sub)
    \/ \E w \in Workers : save_result_finish(w)

SpecRace == Init /\ [][NextRace]_vars

\* SubOtherUser has SubBase's sweep key; SubBadUser has no sweep key
SweepSubmissions == {SubBase, SubOtherUser, SubBadUser}

\* Result saves on the executor threads, and the sweep run beside the service.
NextSweep ==
    \/ \E w \in Workers, sub \in SweepSubmissions : save_result_lookup(w, sub)
    \/ \E w \in Workers : save_result_finish(w)
    \/ cleanup
    \/ ShortTick

SpecSweep == Init /\ [][NextSweep]_vars

(* ---------------------------- submit_answers --------------------------- *)

\* payload["answers"]: a list, a dict keyed by "0", "1", ... (items[i + 1] is
\* the value at key str(i), Absent when the key is missing), or another value
AnswersList(items) == [kind |-> "list", items |-> items]

AnswersDict(items) == [kind |-> "dict", items |-> items]

AnswersOther == [kind |-> "other", items |-> << >>]

\* str(v) of a JSON scalar
PyStr(v) ==
    CASE v.type = "null" -> << "N", "o", "n", "e" >>
      [] OTHER -> v.text

\* routes.py lines 191-199: the answer given to question idx, "" on any error
UserAnswer(answers, idx) ==
    IF idx + 1 \notin DOMAIN answers.items
    THEN << >>
    ELSE LET a == answers.items[idx + 1]
         IN  IF answers.kind = "list"
             THEN (IF a.type = "str" THEN Strip(a.text) ELSE << >>)
             ELSE (IF a.type = "absent" THEN << >> ELSE Strip(PyStr(a)))

SkippedQuestion ==
    << "s", "k", "i", "p", "p", "e", "d", " ", "q", "u", "e", "s", "t", "i", "o", "n" >>

\* str(q.get("correct_answer", "")).strip()
CorrectOf(q) == Strip(q.correct_answer)

\* every answer counts that equals the correct answer, the skip marker too
IsCorrect_mutant_no_skip(userAns, correct) ==
    Lower(Strip(userAns)) = Lower(correct)

\* routes.py lines 202-211
IsCorrect(userAns, correct) ==
    /\ ~(Lower(Strip(userAns)) = SkippedQuestion \/ userAns = << >>)
    /\ Lower(Strip(userAns)) = Lower(correct)

\* routes.py lines 214-223: the entry appended for question idx
GradedDetail(idx, q, userAns) ==
    [keys |-> DetailKeys, questionIndex |-> idx, questionText |-> q.question,
     selected |-> userAns, selectedText |-> userAns, correct |-> CorrectOf(q),
     correctText |-> CorrectOf(q), isCorrect |-> IsCorrect(userAns, CorrectOf(q)),
     explanation |-> ""]

GradeState(score, detailed) == [score |-> score, detailed |-> detailed]

RECURSIVE GradeLoop(_, _, _, _)
\* routes.py lines 190-223: for idx, q in enumerate(questions_data), from the
\* question at position i on
GradeLoop(questions_data, answers, i, st) ==
    IF i > Len(questions_data) THEN st
    ELSE LET d == GradedDetail(i - 1, questions_data[i], UserAnswer(answers, i - 1))
         IN  GradeLoop(questions_data, answers, i + 1,
                       GradeState(IF d.isCorrect THEN st.score + 1 ELSE st.score,
                                  Append(st.detailed, d)))

\* routes.py lines 186-223
Grade(questions_data, answers) ==
    GradeLoop(questions_data, answers, 1, GradeState(0, << >>))

OptionA == << "A" >>

OptionB == << "B" >>

OptionAB == << "a", "b" >>

\* an option that reads "Skipped Question"
OptionSkipped ==
    << "S", "k", "i", "p", "p", "e", "d", " ", "Q", "u", "e", "s", "t", "i", "o", "n" >>

GradedOptions == << OptionA, OptionB, OptionAB, OptionSkipped >>

\* validated questions whose strings are spelled out character by character
GQ1 == Question(QuestionKeys, "first?", GradedOptions, OptionA)

GQ2 == Question(QuestionKeys, "second?", GradedOptions, OptionSkipped)

\* the questions of the stored quiz that is graded
GQC == << GQ1, GQ2 >>

\* questions.json: missing, or the list the last upload wrote
NoQuestionsFile == [exists |-> FALSE, questions |-> << >>]

QuestionsFile(questions) == [exists |-> TRUE, questions |-> questions]

\* what can go wrong inside save_result_sync: nothing; the query or the commit
\* raises (nothing is stored); session.refresh raises after the commit
SaveFaults == {"none", "before_commit", "after_commit"}

\* saved_result of the response: the dict save_result_sync returned, or the
\* fallback dict of lines 231-236, which has no "id"
SavedResult(id, note, error_saving) ==
    [id |-> id, note |-> note, error_saving |-> error_saving]

\* one way the call of line 228 can end: the table afterwards and saved_result
SaveOutcome(store, saved) == [store |-> store, saved |-> saved]

\* the ways save_result_sync(sub) can end under the fault
SaveOutcomes(sub, fault) ==
    IF fault = "before_commit"
    THEN {SaveOutcome(results, SavedResult(None, FALSE, TRUE))}
    ELSE {IF fault = "after_commit" /\ c.existing = None
          THEN SaveOutcome(ResultStoreAfter(c), SavedResult(None, FALSE, TRUE))
          ELSE SaveOutcome(ResultStoreAfter(c),
                           SavedResult(ResultReturn(c).ret, ResultReturn(c).note, FALSE)) :
            c \in {x \in ResultLookups(sub) : ResultRoom(x)}}

\* HTTPException(status_code=400, ...)
SubmitRejected(quiz_id, answers) ==
    [op |-> "submit", status |-> 400, quiz_id |-> quiz_id, answers |-> answers]

\* JSONResponse(response_payload)
SubmitResponse(quiz_id, answers, user, questions_data, g, saved) ==
    [op |-> "submit", status |-> 200, quiz_id |-> quiz_id, answers |-> answers,
     user |-> user, questions |-> questions_data, score |-> g.score,
     total |-> Len(questions_data), detailed |-> g.detailed, saved_result |-> saved]

\* lines 186-245: grade questions_data, save, respond
GradeAndSave(quiz_id, answers, user, questions_data, fault) ==
    LET g == Grade(questions_data, answers)
        sub == Submission(quiz_id, g.score, Len(questions_data), g.detailed, user)
    IN  \E o \in SaveOutcomes(sub, fault) :
          /\ results' = o.store
          /\ last' = SubmitResponse(quiz_id, answers, user, questions_data, g, o.saved)

\* routes.py line 170, "if quiz_id:": None and 0 are falsy
TruthyQuizId(quiz_id) == quiz_id # None /\ quiz_id # 0

\* submit_answers(payload), the whole request
submit_answers(quiz_id, answers, user, file, fault) ==
    /\ IF answers.kind = "other"
       THEN results' = results /\ last' = SubmitRejected(quiz_id, answers)
       ELSE IF TruthyQuizId(quiz_id)
       THEN (IF \E q \in quizzes : q.id = quiz_id
             THEN \E q \in quizzes :
                    /\ q.id = quiz_id
                    /\ GradeAndSave(quiz_id, answers, user, q.questions, fault)
             ELSE results' = results /\ last' = SubmitRejected(quiz_id, answers))
       ELSE (IF file.exists
             THEN GradeAndSave(quiz_id, answers, user, file.questions, fault)
             ELSE results' = results /\ last' = SubmitRejected(quiz_id, answers))
    /\ UNCHANGED << quizzes, now, work, uploads >>

\* the answers payloads submitted
AnswerPayloads ==
    {AnswersList(<< JStr(<< " ", "A", " " >>), JStr(OptionSkipped) >>),
     AnswersList(<< JStr(<< "a" >>) >>),
     AnswersList(<< JNull, JNum(<< "5" >>) >>),
     AnswersDict(<< JStr(OptionB), Absent >>),
     AnswersDict(<< JNull, JStr(SkippedQuestion) >>),
     AnswersOther}

SubmitUsers == {UserAlice}

SubmitQuizIds == {None, 1, 2}

SubmitFiles == {NoQuestionsFile, QuestionsFile(<< GQ1 >>)}

\* the store holds the quiz that is graded
InitSubmit ==
    /\ quizzes = {QuizRow(1, "Math", GQC, _questions_fingerprint(GQC), 0)}
    /\ results = {}
    /\ now = 0
    /\ work = [w \in Workers |-> Idle]
    /\ last = [op |-> "init"]
    /\ uploads = {}

\* Submit requests one after another within one instant of the clock, with
\* faults of the store.
NextSubmit ==
    \E quiz_id \in SubmitQuizIds, answers \in AnswerPayloads, user \in SubmitUsers,
       file \in SubmitFiles, fault \in SaveFaults :
      submit_answers(quiz_id, answers, user, file, fault)

SpecSubmit == InitSubmit /\ [][NextSubmit]_vars

(* ---------------- save_questions_and_db_async, upload_pdf --------------- *)

\* QuestionSchema: four options, and correct_answer is one of them
ValidQuestion(q) ==
    /\ Len(q.options) = 4
    /\ q.correct_answer \in Range(q.options)

\* the rule on the number of options is not enforced
ValidQuiz_mutant_any_options(questions) ==
    /\ Len(questions) >= 1
    /\ \A i \in DOMAIN questions : questions[i].correct_answer \in Range(questions[i].options)

\* QuizCreateSchema(title=title, questions=questions) raises no ValidationError
ValidQuiz(questions) ==
    /\ Len(questions) >= 1
    /\ \A i \in DOMAIN questions : ValidQuestion(questions[i])

\* [q.dict() for q in quiz_in.questions]: the fields in schema order
QuestionDicts(questions) ==
    [i \in DOMAIN questions |-> [questions[i] EXCEPT !.keys = QuestionKeys]]

\* what upload_pdf answers: 200 with the quiz id, or 500 without one;
\* looked_up tells whether save_quiz_to_db_sync was called
UploadAnswer(title, questions, status, quiz_id, looked_up) ==
    [op |-> "upload", title |-> title, questions |-> questions, status |-> status,
     quiz_id |-> quiz_id, looked_up |-> looked_up]

\* one way the call of line 268 can end: the table afterwards, the id returned
\* (None when an exception leaves the call)
QuizOutcome(store, ret) == [store |-> store, ret |-> ret]

\* the ways save_quiz_to_db_sync(title, questions) can end under the fault:
\* the query or the commit raises (nothing is written), or session.refresh
\* raises after the commit of a new row
QuizOutcomes(title, questions, fault) ==
    IF fault = "before_commit"
    THEN {QuizOutcome(quizzes, None)}
    ELSE {IF (fault = "after_commit" /\ c.existing = None) \/ QuizReturn(c).raised
          THEN QuizOutcome(QuizStoreAfter(c), None)
          ELSE QuizOutcome(QuizStoreAfter(c), QuizReturn(c).ret) :
            c \in {x \in QuizLookups(title, questions) : QuizRoom(x)}}

\* save_questions_and_db_async(title, questions) as upload_pdf calls it
\* (routes.py lines 108-122): validate, then save the validated dicts
save_questions_and_db_async(title, questions, fault) ==
    /\ IF ~ValidQuiz(questions)
       THEN /\ quizzes' = quizzes
            /\ last' = UploadAnswer(title, questions, 500, None, FALSE)
       ELSE \E o \in QuizOutcomes(title, QuestionDicts(questions), fault) :
              /\ quizzes' = o.store
              /\ last' = UploadAnswer(title, questions,
                                      IF o.ret = None THEN 500 ELSE 200, o.ret, TRUE)
    /\ UNCHANGED << results, now, work, uploads >>

\* Q1 with three options
QThreeOptions == Question(QuestionKeys, "2+2?", << "1", "2", "4" >>, "4")

\* Q1 with five options
QFiveOptions == Question(QuestionKeys, "2+2?", << "1", "2", "3", "4", "5" >>, "4")

\* a correct answer that is no option
QStrangeAnswer == Question(QuestionKeys, "2+2?", << "1", "2", "3", "4" >>, "5")

\* the lists the generator hands over: valid ones, the empty list, and lists
\* with a malformed question
GeneratedLists ==
    {QA, QAperm, QB, QC, << >>, << QThreeOptions >>, << QFiveOptions >>,
     << QStrangeAnswer >>, << Q1, QThreeOptions >>, << QStrangeAnswer, Q2 >>}

UploadTitles == {"", "Math"}

\* Uploads one after another, with faults of the store, and quiz deletes.
NextUpload ==
    \/ \E title \in UploadTitles, questions \in GeneratedLists, fault \in SaveFaults :
         save_questions_and_db_async(title, questions, fault)
    \/ \E quiz_id \in QuizIds : delete_quiz(quiz_id)

SpecUpload == Init /\ [][NextUpload]_vars

\* an attempt at the quiz with id 2
SubQuizTwo == Submission(2, 1, 2, AnsRW, UserAlice)

DeleteSubmissions == {SubBase, SubNoQuiz, SubQuizTwo}

\* Quiz saves, result saves and quiz deletes one after another; ids of deleted
\* rows are not given out again, so the runs stop at a greatest Result id.
NextDelete ==
    \/ \E questions \in {QA, QB} : save_quiz_to_db_sync("Math", questions)
    \/ \E sub \in DeleteSubmissions :
         NextId(results) <= MaxResultId /\ save_result_sync(sub)
    \/ \E quiz_id \in QuizIds : delete_quiz(quiz_id)

SpecDelete == Init /\ [][NextDelete]_vars

(* ---------------------- make_user_key as a function -------------------- *)

\* the values the email, name and raw fields of a user object take
IdentityEmails ==
    {Absent, JNull, JStr(<< >>), JStr(<< " ", "A", "@", "x", " " >>),
     JNum(<< "5" >>), JNum(<< "0" >>)}

IdentityNames == {Absent, JStr(<< >>), JStr(<< "B" >>), JNum(<< "5" >>)}

IdentityRaws == {Absent, JNull, JStr(<< " ", "Q", " " >>), JNum(<< "5" >>)}

\* the keys of a user object: the fields it has, in insertion order
IdentityKeys(e, n, r) ==
    (IF e = Absent THEN << >> ELSE << "email" >>)
        \o (IF n = Absent THEN << >> ELSE << "name" >>)
        \o (IF r = Absent THEN << >> ELSE << "raw" >>)

UserObjects ==
    {UserDict(IdentityKeys(e, n, r), e, n, r) :
        e \in IdentityEmails, n \in IdentityNames, r \in IdentityRaws}

UserStrings ==
    {UserStr(<< >>), UserStr(<< " ", "A", " " >>), UserStr(<< "5" >>),
     UserStr(<< "0", "5" >>), UserStr(EncodedNull), UserStr(EncodedString),
     UserStr(EncodedEmailDict), UserStr(EncodedNumberEmailDict)}

UserNumbers == {UserNum(<< "0" >>), UserNum(<< "5" >>)}

\* every shape of value make_user_key is handed
UserInputs == {UserNull} \cup UserObjects \cup UserStrings \cup UserNumbers

\* one call make_user_key(u)
CallMakeUserKey(u) ==
    /\ last' = [op |-> "make_user_key", u |-> u, out |-> make_user_key(u)]
    /\ UNCHANGED << quizzes, results, now, work, uploads >>

NextUserKey == \E u \in UserInputs : CallMakeUserKey(u)

SpecUserKey == Init /\ [][NextUserKey]_vars

(* ------------------ _questions_fingerprint as a function --------------- *)

\* Q2 with its keys inserted in another order
Q2perm ==
    Question(<< "options", "correct_answer", "question" >>, "2+2?",
             << "1", "2", "3", "4" >>, "3")

\* Q1 with one option string changed
Q1OtherOption == Question(QuestionKeys, "2+2?", << "1", "2", "3", "5" >>, "4")

\* Q1 with another question text
Q1OtherText == Question(QuestionKeys, "3+1?", << "1", "2", "3", "4" >>, "4")

\* the question lists that are fingerprinted: QA and QC, and what they become
\* when keys are permuted, a value is changed, or questions are added, removed
\* or reordered
FingerprintLists ==
    {<< >>, QA, QAperm, QB, << Q2perm >>, << Q1OtherOption >>, << Q1OtherText >>,
     QC, << Q1perm, Q2 >>, << Q1perm, Q2perm >>, << Q2, Q1 >>, << Q2perm, Q1 >>}

\* the fingerprints of two question lists
CallFingerprint(a, b) ==
    /\ last' = [op |-> "fingerprint", a |-> a, b |-> b,
                fa |-> _questions_fingerprint(a), fb |-> _questions_fingerprint(b)]
    /\ UNCHANGED << quizzes, results, now, work, uploads >>

NextFingerprint == \E a \in FingerprintLists, b \in FingerprintLists : CallFingerprint(a, b)

SpecFingerprint == Init /\ [][NextFingerprint]_vars

(* --------------------- list_results beside the saves ------------------- *)

\* SubOtherUser has SubBase's listing key at the same instant; SubNoQuiz is
\* filtered out by quiz_id = 1; the user of SubBadUser has no identity string
ListSubmissions == {SubBase, SubOtherUser, SubNoQuiz, SubBadUser}

\* limit and offset of a listing request (the default limit is 100)
ListLimits == {1, 100}

ListOffsets == {0, 1}

\* Result saves and deletes with listings between them, each request run to
\* completion before the next.
NextList ==
    \/ \E sub \in ListSubmissions : save_result_sync(sub)
    \/ \E id \in ResultIds : delete_result(id)
    \/ \E id \in {None, 1}, limit \in ListLimits, offset \in ListOffsets :
         list_results(id, limit, offset)
    \/ ShortTick

SpecList == Init /\ [][NextList]_vars

(* ------------------ submit requests beside the deletes ----------------- *)

\* payload.get("quiz_id"): missing, 0, the stored quiz, a quiz that is not stored
ReferQuizIds == {None, 0, 1, 2}

ReferPayloads ==
    {AnswersList(<< JStr(<< " ", "A", " " >>), JStr(OptionSkipped) >>),
     AnswersDict(<< JStr(OptionB), Absent >>)}

\* Submit and delete requests, each run to completion before the next starts.
NextRefer ==
    \/ /\ NextId(results) <= MaxResultId
       /\ \E quiz_id \in ReferQuizIds, answers \in ReferPayloads, file \in SubmitFiles :
            submit_answers(quiz_id, answers, UserAlice, file, "none")
    \/ \E id \in QuizIds : delete_quiz(id)
    \/ \E id \in ResultIds : delete_result(id)

SpecRefer == InitSubmit /\ [][NextRefer]_vars

(* ------------- submit_answers, interleaved at its two sessions --------- *)

\* a submit request on w between its quiz lookup and its result save
SubmitCall(quiz_id, answers, user, questions_data) ==
    [op |-> "submit", quiz_id |-> quiz_id, answers |-> answers, user |-> user,
     questions |-> questions_data]

\* routes.py lines 161-178: the first session reads the quiz and is closed;
\* a request that is rejected ends here
submit_lookup(w, quiz_id, answers, user) ==
    /\ work[w].op = "idle"
    /\ TruthyQuizId(quiz_id)
    /\ answers.kind # "other"
    /\ IF \E q \in quizzes : q.id = quiz_id
       THEN /\ \E q \in quizzes :
                 /\ q.id = quiz_id
                 /\ work' = [work EXCEPT ![w] = SubmitCall(quiz_id, answers, user, q.questions)]
            /\ last' = last
       ELSE /\ work' = work
            /\ last' = SubmitRejected(quiz_id, answers)
    /\ UNCHANGED << quizzes, results, now, uploads >>

\* the save looks the quiz up again and refuses when it is gone
submit_save_mutant_recheck(w) ==
    /\ work[w].op = "submit"
    /\ IF \E q \in quizzes : q.id = work[w].quiz_id
       THEN GradeAndSave(work[w].quiz_id, work[w].answers, work[w].user,
                         work[w].questions, "none")
       ELSE results' = results /\ last' = SubmitRejected(work[w].quiz_id, work[w].answers)
    /\ work' = [work EXCEPT ![w] = Idle]
    /\ UNCHANGED << quizzes, now, uploads >>

\* routes.py lines 186-245: grading, then save_result_sync in its own session,
\* then the response
submit_save(w) ==
    /\ work[w].op = "submit"
    /\ GradeAndSave(work[w].quiz_id, work[w].answers, work[w].user,
                    work[w].questions, "none")
    /\ work' = [work EXCEPT ![w] = Idle]
    /\ UNCHANGED << quizzes, now, uploads >>

\* Submit requests in two steps, with delete requests between the steps.
NextOrphan ==
    \/ \E w \in Workers, quiz_id \in QuizIds, answers \in ReferPayloads :
         submit_lookup(w, quiz_id, answers, UserAlice)
    \/ \E w \in Workers : submit_save(w)
    \/ \E id \in QuizIds : delete_quiz(id)
    \/ \E id \in ResultIds : delete_result(id)
    \/ ShortTick

SpecOrphan == InitSubmit /\ [][NextOrphan]_vars

(* ------------------ the sweep after sequential saves ------------------- *)

\* attempts that save_result_sync tells apart: SubOtherAnswers and SubOtherUser
\* have SubBase's quiz, score, total and email; SubOtherScore has another
\* score; every user has an identity string
CoarseSubmissions == {SubBase, SubOtherAnswers, SubOtherUser, SubOtherScore}

\* Result saves, each run to completion before the next, and the sweep.
NextCoarse ==
    \/ \E sub \in CoarseSubmissions : save_result_sync(sub)
    \/ \E id \in ResultIds : delete_result(id)
    \/ cleanup
    \/ ShortTick

SpecCoarse == Init /\ [][NextCoarse]_vars

(* ------------------------------- upload_pdf ---------------------------- *)

\* routes.py lines 72-78: the first name that no file of the directory has
FreePath == CHOOSE n \in 0..Cardinality(uploads) :
                n \notin uploads /\ \A k \in 0..(n - 1) : k \in uploads

\* what generate_questions_from_text hands back, or that it raised
Generated(raised, data) == [raised |-> raised, data |-> data]

\* the generator raises, finds nothing, or returns one or two questions, one
\* list with a correct answer that is no option
Generations ==
    {Generated(TRUE, << >>), Generated(FALSE, << >>), Generated(FALSE, QA),
     Generated(FALSE, QC), Generated(FALSE, << QStrangeAnswer >>)}

\* aiofiles.open raises, the write raises after the file was created, or the
\* file is written
WriteOutcomes == {"open_failed", "write_failed", "ok"}

\* extract_text_from_pdf_sync raises, returns no text, or returns text
Extractions == {"raises", "empty", "text"}

\* where the request ends before save_questions_and_db_async is called
\* ("save": it is called)
EarlyEnd(pdf, write, extraction, generation) ==
    CASE ~pdf -> "not_pdf"
      [] pdf /\ write # "ok" -> write
      [] pdf /\ write = "ok" /\ extraction = "raises" -> "exception"
      [] pdf /\ write = "ok" /\ extraction = "empty" -> "no_text"
      [] pdf /\ write = "ok" /\ extraction = "text" /\ generation.raised -> "exception"
      [] pdf /\ write = "ok" /\ extraction = "text" /\ ~generation.raised
           /\ generation.data = << >> -> "no_questions"
      [] OTHER -> "save"

\* the response of upload_pdf; saved_path is the name the upload was given,
\* written tells whether the whole upload was written to it
PdfAnswer(status, quiz_id, ended, saved_path, written) ==
    [op |-> "upload_pdf", status |-> status, quiz_id |-> quiz_id, ended |-> ended,
     saved_path |-> saved_path, written |-> written]

\* routes.py upload_pdf, the whole request.  The file is unlinked at lines 93,
\* 103, 118 and 128; the HTTPException raised at lines 113 and 115 is re-raised
\* at line 125 and passes no unlink.
upload_pdf(pdf, write, extraction, generation, title, fault) ==
    /\ Cardinality(uploads) < MaxUploads
    /\ LET end == EarlyEnd(pdf, write, extraction, generation)
       IN  IF end # "save"
           THEN /\ quizzes' = quizzes
                /\ uploads' = IF end = "write_failed" THEN uploads \cup {FreePath} ELSE uploads
                /\ last' = PdfAnswer(IF end = "not_pdf" THEN 400 ELSE 500, None, end, FreePath,
                                     end \in {"exception", "no_text", "no_questions"})
           ELSE IF ~ValidQuiz(generation.data)
           THEN /\ quizzes' = quizzes
                /\ uploads' = uploads \cup {FreePath}
                /\ last' = PdfAnswer(500, None, "validation_error", FreePath, TRUE)
           ELSE \E o \in QuizOutcomes(title, QuestionDicts(generation.data), fault) :
                  /\ quizzes' = o.store
                  /\ uploads' = IF o.ret = None THEN uploads \cup {FreePath} ELSE uploads
                  /\ last' = IF o.ret = None
                             THEN PdfAnswer(500, None, "save_failed", FreePath, TRUE)
                             ELSE PdfAnswer(200, o.ret, "success", FreePath, TRUE)
    /\ UNCHANGED << results, now, work >>

\* Uploads one after another, with faults of the store, and quiz deletes.
NextPdf ==
    \/ \E pdf \in BOOLEAN, write \in WriteOutcomes, extraction \in Extractions,
          generation \in Generations, fault \in SaveFaults :
         upload_pdf(pdf, write, extraction, generation, "Math", fault)
    \/ \E quiz_id \in QuizIds : delete_quiz(quiz_id)

SpecPdf == Init /\ [][NextPdf]_vars

(* ------------------------------- claims -------------------------------- *)

\* the stored row with this id
QuizWithId(rows, id) == CHOOSE q \in rows : q.id = id

\* C1: quiz save is idempotent.  A completed save_quiz_to_db_sync(title, Q)
\* returns the id of a row that is stored afterwards and is the only stored row
\* whose fingerprint is fingerprint(Q); when a row with that fingerprint was
\* stored before the call, the call returns that row's id and inserts nothing;
\* and a save that directly follows a save of an equal list returns the same id.
C1_QuizSaveIdempotent ==
    [][(last'.op = "save_quiz" /\ last' # last) =>
         /\ ~last'.raised
         /\ Cardinality({q \in quizzes' :
                           q.fingerprint = _questions_fingerprint(last'.questions)}) = 1
         /\ \E q \in quizzes' :
              /\ q.id = last'.ret
              /\ q.fingerprint = _questions_fingerprint(last'.questions)
         /\ \A q \in quizzes :
              PyEqList(q.questions, last'.questions) =>
                last'.ret = q.id /\ {x.id : x \in quizzes'} = {x.id : x \in quizzes}
         /\ (last.op = "save_quiz" /\ PyEqList(last.questions, last'.questions)) =>
              last'.ret = last.ret]_vars

\* a repeated save resolved to the row stored by an earlier save of an equal
\* list written with another key order, while a second quiz is stored too
C1_Witness ==
    /\ last.op = "save_quiz"
    /\ ~last.inserted
    /\ last.questions = QAperm
    /\ Cardinality(quizzes) = 2
    /\ \E q \in quizzes : q.id = last.ret /\ q.questions = QA

\* C2: after any sequence of completed saves and deletes the store holds at
\* most one quiz per fingerprint, and every stored fingerprint is the
\* fingerprint of the stored question list.
C2_OneQuizPerFingerprint ==
    /\ \A q1, q2 \in quizzes : q1.fingerprint = q2.fingerprint => q1 = q2
    /\ \A q \in quizzes : q.fingerprint = _questions_fingerprint(q.questions)

\* two quizzes are stored, one of them under a list whose keys are not in
\* canonical order, and the last save resolved to a stored quiz
C2_Witness ==
    /\ Cardinality(quizzes) = 2
    /\ \E q \in quizzes : q.questions = QAperm /\ q.id = 1
    /\ \E q \in quizzes : q.questions = QB /\ q.id = 2
    /\ last.op = "save_quiz"
    /\ ~last.inserted

\* C9: title backfill.  When a save resolves to an existing quiz, the stored
\* title becomes the proposed title exactly when the proposed title is
\* non-empty, the stored title is null, empty or "Uploaded Quiz", and the two
\* differ; otherwise the stored title stays, so a real title is never replaced.
C9_TitleBackfill ==
    [][(last'.op = "save_quiz" /\ last' # last /\ ~last'.inserted) =>
         \A e \in quizzes :
           e.id = last'.ret =>
             /\ \E e2 \in quizzes' : e2.id = e.id
             /\ LET e2 == QuizWithId(quizzes', e.id)
                    replace ==
                      /\ last'.title \notin {NoTitle, ""}
                      /\ e.title \in {NoTitle, "", "Uploaded Quiz"}
                      /\ last'.title # e.title
                IN  /\ replace => e2.title = last'.title
                    /\ ~replace => e2.title = e.title
                    /\ last'.updated = replace]_vars

\* a real title proposed for a quiz stored with the empty title replaced it
C9_Witness ==
    /\ last.op = "save_quiz"
    /\ last.updated
    /\ last.title = "Physics"
    /\ \E q \in quizzes : q.id = last.ret /\ q.title = "Physics" /\ q.questions = QAperm
    /\ \E q \in quizzes : q.title = "Math"

\* the same user value, as Python compares two decoded JSON values
SameUser(a, b) == a.kind = b.kind /\ a.text = b.text /\ PyEqDict(a, b)

\* the stored row r carries the quiz reference, score, total, answers and
\* (normalised) user of the submission sub
RowOfSubmission(r, sub) ==
    /\ r.quiz_id = sub.quiz_id
    /\ r.score = sub.score
    /\ r.total = sub.total
    /\ PyEqList(r.answers, sub.answers)
    /\ SameUser(r.user, NormalizeUser(sub.user))

\* two stored rows carry the same (quiz_id, score, total, answers, user)
SameTuple(r1, r2) ==
    /\ r1.quiz_id = r2.quiz_id
    /\ r1.score = r2.score
    /\ r1.total = r2.total
    /\ PyEqList(r1.answers, r2.answers)
    /\ SameUser(r1.user, r2.user)

\* this step is a completed save_result_sync call that directly follows
\* another completed save_result_sync call with identical arguments
RepeatedResultSave ==
    /\ last.op = "save_result"
    /\ last'.op = "save_result"
    /\ last' # last
    /\ SameSubmission(last.sub, last'.sub)

\* C3 as stated: two sequential identical save_result_sync calls, the second
\* less than dedupe_window_seconds after the first, return the same id and the
\* second inserts no row, whatever rows the store already holds.
C3_Original ==
    [][(RepeatedResultSave /\ last'.at - last.at < dedupe_window_seconds) =>
         /\ last'.ret = last.ret
         /\ results' = results]_vars

\* C3 (amended): two sequential identical save_result_sync calls, the second
\* less than dedupe_window_seconds after the first and no more than
\* dedupe_window_seconds after the creation of the row the first call returned,
\* return the same id, and the second call inserts no row.
C3_DedupeWithinWindow ==
    [][(/\ RepeatedResultSave
        /\ last'.at - last.at < dedupe_window_seconds
        /\ \E r \in results :
             r.id = last.ret /\ last'.at - r.created_at <= dedupe_window_seconds) =>
         /\ last'.ret = last.ret
         /\ last'.note
         /\ results' = results]_vars

\* a call made later than the creation of a row of its own attempt, and less
\* than the window after it, was answered with that row, which was stored under
\* another key order
C3_Witness ==
    /\ last.op = "save_result"
    /\ last.note
    /\ Cardinality(results) = 2
    /\ \E r \in results :
         /\ r.id = last.ret
         /\ r.answers # last.sub.answers
         /\ last.at - r.created_at \in 1..(dedupe_window_seconds - 1)

\* C4: window boundary.  A completed save_result_sync call made at time t
\* reuses a stored row of the same attempt if and only if some such row has
\* created_at >= t - dedupe_window_seconds, and the row it returns is one of
\* those; when every such row is older, it inserts one row under a new id.
C4_WindowBoundary ==
    [][(last'.op = "save_result" /\ last' # last) =>
         LET same == {r \in results : RowOfSubmission(r, last'.sub)}
             fresh == {r \in same :
                         r.created_at >= last'.at - dedupe_window_seconds}
         IN  /\ last'.note <=> fresh # {}
             /\ last'.note =>
                  /\ results' = results
                  /\ \E r \in fresh : r.id = last'.ret
             /\ ~last'.note =>
                  /\ last'.ret \notin {r.id : r \in results}
                  /\ \E r \in results' :
                       /\ r.id = last'.ret
                       /\ r.created_at = last'.at
                       /\ RowOfSubmission(r, last'.sub)
                       /\ results' = results \cup {r}]_vars

\* the call reused a row that was exactly dedupe_window_seconds old
C4_Witness ==
    /\ last.op = "save_result"
    /\ last.note
    /\ \E r \in results :
         r.id = last.ret /\ last.at - r.created_at = dedupe_window_seconds

\* C5: soft uniqueness.  After sequential save_result_sync calls and deletes,
\* no two stored Result rows carry the same (quiz_id, score, total, answers,
\* user) with creation times at most dedupe_window_seconds apart.
C5_SoftUniqueness ==
    \A r1, r2 \in results :
      (r1.id # r2.id /\ SameTuple(r1, r2)) =>
        \/ r1.created_at - r2.created_at > dedupe_window_seconds
        \/ r2.created_at - r1.created_at > dedupe_window_seconds

\* two rows of one attempt are stored, the later one inserted when the earlier
\* one had left the window
C5_Witness ==
    /\ last.op = "save_result"
    /\ ~last.note
    /\ \E r1, r2 \in results :
         /\ r1.id # r2.id
         /\ SameTuple(r1, r2)
         /\ r2.id = last.ret
         /\ r2.created_at - r1.created_at = dedupe_window_seconds + TickSeconds

\* rows of one attempt whose creation times lie pairwise inside the window
DuplicateResults(rows, r) ==
    {o \in rows :
       /\ SameTuple(o, r)
       /\ o.created_at - r.created_at <= dedupe_window_seconds
       /\ r.created_at - o.created_at <= dedupe_window_seconds}

\* C6: the dedupe decisions are read-then-write without locking.  A call whose
\* lookup found nothing inserts its row when it writes, whatever was committed
\* since the lookup, so two calls that both looked up before either wrote both
\* insert; and the rows of one fingerprint, or of one attempt inside the
\* window, never outnumber the calls that can overlap.
C6_RaceDuplicates ==
    [][/\ \A w \in Workers :
            (/\ work[w].op = "save_result"
             /\ work[w].existing = None
             /\ work'[w].op = "idle") =>
              /\ Cardinality(results') = Cardinality(results) + 1
              /\ \E r \in results' \ results :
                   r.id = last'.ret /\ RowOfSubmission(r, work[w].sub)
       /\ \A w \in Workers :
            (/\ work[w].op = "save_quiz"
             /\ work[w].existing = None
             /\ work'[w].op = "idle") =>
              /\ Cardinality(quizzes') = Cardinality(quizzes) + 1
              /\ \E q \in quizzes' \ quizzes :
                   /\ q.id = last'.ret
                   /\ q.fingerprint = _questions_fingerprint(work[w].questions)
       /\ \A q \in quizzes' :
            Cardinality({o \in quizzes' : o.fingerprint = q.fingerprint}) <= NumWorkers
       /\ \A r \in results' :
            Cardinality(DuplicateResults(results', r)) <= NumWorkers]_vars

\* both races have happened: two Results of one attempt inside the window and
\* two Quizzes of one fingerprint are stored, and no call is in flight
C6_Witness ==
    /\ AllIdle
    /\ \E r1, r2 \in results : r1.id # r2.id /\ r2 \in DuplicateResults(results, r1)
    /\ \E q1, q2 \in quizzes : q1.id # q2.id /\ q1.fingerprint = q2.fingerprint

\* this step is a run of cleanup()
CleanupStep == last'.op = "cleanup" /\ last' # last

\* the two rows have one sweep key: quiz_id, user identity, score, total and
\* creation timestamp
SameSweepKey(o, r) ==
    /\ o.quiz_id = r.quiz_id
    /\ make_user_key(o.user) = make_user_key(r.user)
    /\ o.score = r.score
    /\ o.total = r.total
    /\ o.created_at = r.created_at

HasUserKey(r) == ~make_user_key(r.user).raised

\* C8: bulk sweep result.  After cleanup() has run, of the rows that shared a
\* key (quiz_id, user identity, score, total, creation timestamp) exactly the
\* one smallest by (created_at, id) remains, and every row remains whose key
\* no row before it had.
C8_SweepResult ==
    [][CleanupStep =>
         /\ results' \subseteq results
         /\ \A r \in results :
              HasUserKey(r) =>
                (r \in results' <=>
                   ~ \E o \in results :
                       HasUserKey(o) /\ SameSweepKey(o, r) /\ Before(o, r))]_vars

\* C10: no stored record is mutated except by title backfill.  In every step a
\* Quiz that stays stored keeps its questions, fingerprint and created_at, and
\* its title changes only in a quiz save that resolved to that quiz; a Result
\* that stays stored keeps every field.
C10_FrameExceptTitleBackfill ==
    [][/\ \A q \in quizzes, q2 \in quizzes' :
            q.id = q2.id =>
              /\ q2.questions = q.questions
              /\ q2.fingerprint = q.fingerprint
              /\ q2.created_at = q.created_at
              /\ q2.title # q.title =>
                   /\ last'.op = "save_quiz"
                   /\ ~last'.inserted
                   /\ last'.ret = q.id
       /\ \A r \in results, r2 \in results' :
            r.id = r2.id =>
              /\ r2.quiz_id = r.quiz_id
              /\ r2.score = r.score
              /\ r2.total = r.total
              /\ r2.answers = r.answers
              /\ r2.user = r.user
              /\ r2.created_at = r.created_at]_vars

\* a save has just backfilled the title of a quiz created earlier, while
\* Results are stored
C10_Witness ==
    /\ last.op = "save_quiz"
    /\ last.updated
    /\ results # {}
    /\ \E q \in quizzes :
         q.id = last.ret /\ q.title = "Math" /\ q.created_at < now

\* the stored rows of the submission's attempt that lie inside the window of a
\* lookup made at time t
FreshRowsOfSubmission(sub, t) ==
    {r \in results :
       RowOfSubmission(r, sub) /\ r.created_at >= t - dedupe_window_seconds}

\* C11: tie-break.  When the lookup of save_result_sync finds stored rows of
\* the incoming attempt inside the window, the row it settles on is one of
\* them and none of them has a greater creation timestamp.
C11_TieBreakNewest ==
    [][\A w \in Workers :
         (/\ work[w].op = "idle"
          /\ work'[w].op = "save_result"
          /\ work'[w].existing # None) =>
           LET fresh == FreshRowsOfSubmission(work'[w].sub, work'[w].at)
           IN  \E r \in fresh :
                 /\ r.id = work'[w].existing
                 /\ \A o \in fresh : o.created_at <= r.created_at]_vars

\* a call has returned the later of two stored rows of its attempt that were
\* both inside its window
C11_Witness ==
    /\ last.op = "save_result"
    /\ last.note
    /\ \E r, o \in results :
         /\ r.id = last.ret
         /\ RowOfSubmission(r, last.sub)
         /\ RowOfSubmission(o, last.sub)
         /\ o.created_at < r.created_at
         /\ o.created_at >= last.at - dedupe_window_seconds

\* C12: a found duplicate is a normal outcome.  Every completed
\* save_result_sync call returns a record with an id; the record carries the
\* "note" tag exactly when the call inserted nothing and the id is that of a
\* row stored before the call, and it carries no tag exactly when the id is
\* that of the one row the call inserted.
C12_DedupedTag ==
    [][(last'.op = "save_result" /\ last' # last) =>
         /\ last'.ret # None
         /\ last'.note <=>
              (results' = results /\ \E r \in results : r.id = last'.ret)
         /\ ~last'.note <=>
              (/\ Cardinality(results') = Cardinality(results) + 1
               /\ \E r \in results' \ results : r.id = last'.ret)]_vars

\* a submission repeated in the same instant was answered with the stored
\* row and the tag, and nothing was inserted
C12_Witness ==
    /\ last.op = "save_result"
    /\ last.note
    /\ Cardinality(results) = 1
    /\ \E r \in results :
         r.id = last.ret /\ RowOfSubmission(r, last.sub) /\ r.created_at = last.at

\* this step is a submit request that was graded and answered
SubmitStep ==
    /\ last'.op = "submit"
    /\ last'.status = 200
    /\ last' # last \/ results' # results

\* C13: result-save failure is downgraded.  When save_result_sync fails during
\* a submit request, the request is still answered with the computed score,
\* total and detailed list, saved_result carries error_saving and no id, and
\* the request has stored no Result row.
C13_SaveFailureDowngraded ==
    [][(SubmitStep /\ last'.saved_result.error_saving) =>
         /\ last'.saved_result.id = None
         /\ last'.score = Grade(last'.questions, last'.answers).score
         /\ last'.total = Len(last'.questions)
         /\ last'.detailed = Grade(last'.questions, last'.answers).detailed
         /\ results' = results]_vars

\* this step is an upload that reached save_questions_and_db_async
UploadStep ==
    /\ last'.op = "upload"
    /\ last' # last \/ quizzes' # quizzes

\* C14: quiz-save failure is a hard failure.  When the store operation of
\* save_quiz_to_db_sync fails, upload_pdf answers with an error and no
\* quiz_id, and the call has left no quiz row in the store.
C14_QuizSaveHardFailure ==
    [][(UploadStep /\ last'.looked_up /\ last'.status # 200) =>
         /\ last'.quiz_id = None
         /\ quizzes' = quizzes]_vars

\* a list as the schema demands it: at least one question, each with exactly
\* four options and a correct answer among them
WellFormedQuestions(questions) ==
    /\ questions # << >>
    /\ \A i \in DOMAIN questions :
         /\ Len(questions[i].options) = 4
         /\ \E k \in 1..4 : questions[i].options[k] = questions[i].correct_answer

\* C15: validation precedes dedupe and persistence.  A list that is empty or
\* holds a malformed question is rejected before save_quiz_to_db_sync is
\* called and changes nothing in the store; every stored quiz has at least
\* one question, each with four options and a correct answer among them.
C15_ValidationFirst ==
    [][/\ (UploadStep /\ ~WellFormedQuestions(last'.questions)) =>
            /\ ~last'.looked_up
            /\ last'.status # 200
            /\ last'.quiz_id = None
            /\ quizzes' = quizzes
       /\ \A q \in quizzes' : WellFormedQuestions(q.questions)]_vars

\* a list whose second question has three options was rejected while two
\* quizzes were stored
C15_Witness ==
    /\ last.op = "upload"
    /\ last.questions = << Q1, QThreeOptions >>
    /\ ~last.looked_up
    /\ Cardinality(quizzes) = 2

\* C16: quiz deletion cascades.  After delete_quiz(q) has found quiz q, neither
\* q nor any Result with quiz_id = q is stored and every other Quiz and Result
\* row is stored unchanged; delete_quiz on an id that is not stored reports
\* not-found and leaves the store unchanged.
C16_DeleteQuizCascades ==
    [][(last'.op = "delete_quiz" /\ (last' # last \/ quizzes' # quizzes)) =>
         /\ last'.found <=> \E q \in quizzes : q.id = last'.id
         /\ last'.found =>
              /\ ~ \E q \in quizzes' : q.id = last'.id
              /\ ~ \E r \in results' : r.quiz_id = last'.id
              /\ quizzes' \subseteq quizzes
              /\ results' \subseteq results
              /\ \A q \in quizzes : q.id # last'.id => q \in quizzes'
              /\ \A r \in results : r.quiz_id # last'.id => r \in results'
         /\ ~last'.found => quizzes' = quizzes /\ results' = results]_vars

\* quiz 1 has been deleted together with its Result (row 1), while quiz 2 and
\* a Result that refers to another quiz are still stored
C16_Witness ==
    /\ last.op = "delete_quiz"
    /\ last.found
    /\ last.id = 1
    /\ \E q \in quizzes : q.id = 2
    /\ \E r \in results : r.id = 2 /\ r.quiz_id # 1
    /\ ~ \E r \in results : r.id = 1

\* a field of a user object that holds nothing: missing, null or ""
EmptyField(x) == x.type \in {"absent", "null"} \/ (x.type = "str" /\ x.text = << >>)

\* a user object all of whose identity fields are strings, null or missing
StringFields(u) ==
    \A x \in {u.email, u.name, u.raw} : x.type \in {"absent", "null", "str"}

\* email, else name, else raw, else "" ("else": when the field holds nothing)
ChainText(u) ==
    IF ~EmptyField(u.email) THEN u.email.text
    ELSE IF ~EmptyField(u.name) THEN u.name.text
    ELSE IF ~EmptyField(u.raw) THEN u.raw.text
    ELSE << >>

\* the identity the fallback chain names for u; Unsaid where the chain names
\* none (an object with a field that is no string, a string that parses to a
\* value that is no object)
Unsaid == << "?" >>

ChainIdentity(u) ==
    CASE u.kind = "null" -> << >>
      [] u.kind = "dict" ->
            IF StringFields(u) THEN Lower(Strip(ChainText(u))) ELSE Unsaid
      [] u.kind = "str" ->
            IF ~json_loads(u.text).ok THEN Lower(Strip(u.text))
            ELSE IF json_loads(u.text).value.kind = "dict"
                    /\ StringFields(json_loads(u.text).value)
            THEN Lower(Strip(ChainText(json_loads(u.text).value)))
            ELSE Unsaid
      [] OTHER -> Lower(Strip(u.text))

\* C17: make_user_key follows the fallback chain: None gives ""; an object
\* gives its email, else its name, else its raw field, else "", trimmed and
\* lowercased; a string that does not parse gives itself trimmed and
\* lowercased, one that parses to an object gives the chain of that object; any
\* other value gives its str(), trimmed and lowercased.  Violated: the number 0
\* is falsy, so line 6 returns "" for it and never reaches str(u).
C17_FallbackChain ==
    (last.op = "make_user_key" /\ ChainIdentity(last.u) # Unsaid)
        => (~last.out.raised /\ last.out.key = ChainIdentity(last.u))

\* C18: make_user_key is total: it returns a string and never raises, whatever
\* the shape of its input.  Violated: an object whose first truthy identity
\* field is a number has no .strip(), and the AttributeError leaves the function.
C18_Total ==
    last.op = "make_user_key" => ~last.out.raised

\* two questions with the same content: the same fields with the same values,
\* whatever the insertion order of the keys
SameQuestion(p, q) ==
    /\ Range(p.keys) = Range(q.keys)
    /\ p.question = q.question
    /\ p.options = q.options
    /\ p.correct_answer = q.correct_answer

\* two question lists whose canonical encodings are equal: the same number of
\* questions, and the same content at every position
SameEncoding(a, b) ==
    /\ Len(a) = Len(b)
    /\ \A i \in 1..Len(a) : SameQuestion(a[i], b[i])

\* b is a with two questions of different content exchanged
Reordered(a, b) ==
    /\ Len(a) = 2
    /\ Len(b) = 2
    /\ SameQuestion(a[1], b[2])
    /\ SameQuestion(a[2], b[1])
    /\ ~SameQuestion(a[1], a[2])

\* C19: two question lists get the same fingerprint if and only if their
\* canonical encodings are equal: permuting the keys inside a question leaves
\* the fingerprint unchanged; another option string, another correct answer,
\* one question more or fewer, or the questions in another order change it.
C19_FingerprintContentOnly ==
    last.op = "fingerprint" =>
        /\ (last.fa = last.fb) <=> SameEncoding(last.a, last.b)
        /\ Reordered(last.a, last.b) => last.fa # last.fb
        /\ Len(last.a) # Len(last.b) => last.fa # last.fb
        /\ (\E i \in DOMAIN last.a \cap DOMAIN last.b :
                \/ last.a[i].options # last.b[i].options
                \/ last.a[i].correct_answer # last.b[i].correct_answer)
             => last.fa # last.fb

\* two lists of two questions that differ only in the key order of their
\* questions were fingerprinted, and the fingerprints are equal
C19_Witness ==
    /\ last.op = "fingerprint"
    /\ last.a # last.b
    /\ Len(last.a) = 2
    /\ last.fa = last.fb

\* the stored attempt r is a well-formed grading of the questions
WellFormedAttempt(r, questions) ==
    /\ 0 <= r.score
    /\ r.score <= r.total
    /\ r.total > 0
    /\ r.total = Len(questions)
    /\ Len(r.answers) = Len(questions)
    /\ \A i \in DOMAIN r.answers :
         /\ r.answers[i].questionIndex = i - 1
         /\ r.answers[i].questionText = questions[i].question
         /\ (r.answers[i].selected = << >>
               \/ Lower(r.answers[i].selected) = SkippedQuestion)
              => ~r.answers[i].isCorrect
    /\ r.score = Cardinality({i \in DOMAIN r.answers : r.answers[i].isCorrect})

\* C20: stored attempts are well-formed.  Every Result row a submit request
\* creates has 0 <= score <= total, a positive total equal to the number of
\* questions of the graded quiz, one detail entry per question in question
\* order, and a score equal to the number of entries flagged isCorrect; an
\* entry whose answer is empty or "skipped question" is never flagged correct.
C20_StoredAttemptsWellFormed ==
    [][SubmitStep =>
         \A r \in results' \ results : WellFormedAttempt(r, last'.questions)]_vars

\* a stored attempt at the two questions with score 1 whose second answer is
\* "Skipped Question", which is also the correct answer of that question
C20_Witness ==
    \E r \in results :
        /\ r.total = 2
        /\ r.score = 1
        /\ Lower(r.answers[2].selected) = SkippedQuestion
        /\ Lower(r.answers[2].correct) = SkippedQuestion
        /\ ~r.answers[2].isCorrect
        /\ last.op = "submit"

\* this step is a listing request
ListStep == last'.op = "list_results" /\ last' # last

\* the rows a listing request fetches: those of the quiz asked for, ranked
\* newest first (greatest created_at, then greatest id), ranks offset + 1 to
\* offset + limit
FetchedPage(quiz_id, limit, offset) ==
    LET filtered == {r \in results : quiz_id = None \/ r.quiz_id = quiz_id}
        rank(r) == 1 + Cardinality({o \in filtered : Before(r, o)})
    IN  {r \in filtered : offset < rank(r) /\ rank(r) <= offset + limit}

\* C21: listing hides duplicates without changing the store.  list_results
\* returns no two entries with the same key (quiz_id, user identity, score,
\* total, creation timestamp); every key of the fetched page is shown by its
\* first row in newest-first order, which is the row cleanup() would delete
\* when an older row of the key is stored; the call changes no stored row.
C21_ListingHidesDuplicates ==
    [][ListStep =>
         /\ results' = results
         /\ quizzes' = quizzes
         /\ ~last'.raised =>
              LET page == FetchedPage(last'.quiz_id, last'.limit, last'.offset)
                  out == last'.out
              IN  /\ \A i \in DOMAIN out : \E r \in page : r.id = out[i]
                  /\ \A i, j \in DOMAIN out :
                       i # j => \A r, o \in page :
                                  (r.id = out[i] /\ o.id = out[j]) => ~SameSweepKey(r, o)
                  /\ \A r \in page :
                       \E i \in DOMAIN out : \E s \in page :
                          /\ s.id = out[i]
                          /\ SameSweepKey(s, r)
                          /\ s = r \/ Before(r, s)
                  /\ \A i \in DOMAIN out : \A r, o \in results :
                       (r.id = out[i] /\ SameSweepKey(o, r) /\ Before(o, r)
                          /\ ~Sweep(results).raised)
                         => r.id \in Range(Sweep(results).to_delete_ids)]_vars

\* a listing of a page that held two rows of one key showed the newer one only
C21_Witness ==
    /\ last.op = "list_results"
    /\ ~last.raised
    /\ Len(last.out) = 1
    /\ \E r, o \in FetchedPage(last.quiz_id, last.limit, last.offset) :
         /\ r.id = last.out[1]
         /\ o.id < r.id
         /\ SameSweepKey(o, r)

\* C22: referential invariant under atomic requests.  After any sequence of
\* submit, delete_quiz and delete_result requests, each run to completion, every
\* stored Result whose quiz_id is not None references a stored Quiz.  Violated:
\* a submit with quiz_id 0 is graded from questions.json ("if quiz_id:" is
\* false) and stored with quiz_id 0, the id of no quiz.
C22_ReferentialInvariant ==
    \A r \in results : r.quiz_id # None => \E q \in quizzes : q.id = r.quiz_id

\* the quiz with this id is stored / will be stored after the step
QuizStored(id) == \E q \in quizzes : q.id = id

QuizStoredAfter(id) == \E q \in quizzes' : q.id = id

\* C23: orphan through interleaving.  When a submit request saves its result
\* after the quiz it looked up was deleted, the save still succeeds: the row of
\* the response is stored with the id of a quiz that is not stored; and a
\* delete_quiz request for a quiz that is not stored removes no result, so the
\* orphan row outlives the cascade.
C23_OrphanThroughInterleaving ==
    [][/\ \A w \in Workers :
            (work[w].op = "submit" /\ work'[w].op = "idle"
               /\ ~QuizStored(work[w].quiz_id))
              => /\ last'.op = "submit"
                 /\ last'.status = 200
                 /\ ~last'.saved_result.error_saving
                 /\ \E r \in results' :
                       /\ r.id = last'.saved_result.id
                       /\ r.quiz_id = work[w].quiz_id
                 /\ ~QuizStoredAfter(work[w].quiz_id)
       /\ (last'.op = "delete_quiz" /\ last' # last /\ ~last'.found)
            => results' = results]_vars

\* a result of quiz 1 is stored, quiz 1 is not, and a further delete_quiz(1)
\* has just run
C23_Witness ==
    /\ \E r \in results : r.quiz_id = 1
    /\ ~QuizStored(1)
    /\ last = Deleted("delete_quiz", 1, FALSE)

\* this step is a completed save_result_sync call that was answered with a
\* stored row
DedupedSave == last'.op = "save_result" /\ last' # last /\ last'.note

\* this step ends a chain: an identical call directly after a deduped one and
\* less than the window later, when every stored row of the attempt is older
\* than the window
ChainEnd ==
    /\ RepeatedResultSave
    /\ last.note
    /\ last'.at - last.at < dedupe_window_seconds
    /\ \A r \in results :
         RowOfSubmission(r, last'.sub) => r.created_at < last'.at - dedupe_window_seconds

\* C24: a deduped reuse leaves the store unchanged.  A save_result_sync call
\* that returns an existing row changes no row, the created_at of the matched
\* row included; so a call that follows deduped identical calls, each less than
\* the window after the one before, inserts a new row once the original row is
\* older than the window.
C24_ReuseLeavesStoreUnchanged ==
    [][/\ DedupedSave =>
            /\ results' = results
            /\ quizzes' = quizzes
            /\ \E r \in results' : r.id = last'.ret /\ r.created_at <= last'.at
       /\ ChainEnd =>
            /\ ~last'.note
            /\ \E r \in results' \ results :
                 r.id = last'.ret /\ r.created_at = last'.at]_vars

\* two rows of one attempt are stored, the second inserted more than the
\* window after the first by the last call
C24_Witness ==
    /\ last.op = "save_result"
    /\ ~last.note
    /\ \E r1, r2 \in results :
         /\ r2.id = last.ret
         /\ RowOfSubmission(r1, last.sub)
         /\ RowOfSubmission(r2, last.sub)
         /\ r2.created_at = last.at
         /\ r1.created_at < r2.created_at - dedupe_window_seconds

WrittenUploadStep ==
    /\ last'.op = "upload_pdf"
    /\ last'.written
    /\ last' # last \/ uploads' # uploads \/ quizzes' # quizzes

\* C26: upload leaves no file behind.  On every path of upload_pdf that ends
\* after the uploaded file was written, the file is gone from the upload
\* directory when the request has finished.  Violated: after a validation
\* error or a failed quiz save the file is still there.
C26_UploadLeavesNoFile ==
    [][WrittenUploadStep => last'.saved_path \notin uploads']_vars

====
